---------------------------- MODULE Spec2Model ----------------------------
(***************************************************************************)
(* A model of the CHIP-8 interpreter of src/src/chip8.rs and of the driver *)
(* loop of src/src/main.rs.                                                *)
(*                                                                         *)
(* The machine (struct Chip8) is the record held by the variable chip8;    *)
(* every instruction is an operator from a machine record to a machine     *)
(* record, written statement by statement from its Rust function.  A Rust  *)
(* panic (an out-of-bounds index, or an arithmetic overflow in a build     *)
(* with overflow checks) stops the function where it happens: the record   *)
(* keeps the writes made before it and its field panic names the cause.    *)
(*                                                                         *)
(* The two large arrays, memory ([u8; 4096]) and display ([u8; 2048]), are *)
(* held as the function of their nonzero elements: Get reads an element    *)
(* (0 where the function has none) and Put writes one.  Bounds checks are  *)
(* those of the Rust index expressions and are written where they happen.  *)
(***************************************************************************)
EXTENDS Integers, Sequences, FiniteSets, TLC

(***************************************************************************)
(* Program constants.                                                      *)
(***************************************************************************)
WIDTH == 64
HEIGHT == 32
MemSize == 4096
StackSize == 16
NumRegs == 16
NumKeys == 16
RomBase == 512
FontBase == 80
PcStart == 512
U8 == 256
U16 == 65536

(***************************************************************************)
(* Bounds of the exploration.                                              *)
(***************************************************************************)
\* The driver loop is followed for at most MaxFrames iterations.
MaxFrames == 250
\* The oversized ROM image is OversizeBy bytes longer than the 3584 bytes
\* that fit above RomBase.
OversizeBy == 2
\* The keys 0 .. MaxKey can go down on the host keyboard.
MaxKey == 1

Capacity == MemSize - RomBase

CHIP8_FONTSET ==
    << 240, 144, 144, 144, 240,
        32,  96,  32,  32, 112,
       240,  16, 240, 128, 240,
       240,  16, 240,  16, 240,
       144, 144, 240,  16,  16,
       240, 128, 240,  16, 240,
       240, 128, 240, 144, 240,
       240,  16,  32,  64,  64,
       240, 144, 240, 144, 240,
       240, 144, 240,  16, 240,
       240, 144, 240, 144, 144,
       224, 144, 224, 144, 224,
       240, 128, 128, 128, 240,
       224, 144, 144, 144, 224,
       240, 128, 240, 128, 240,
       240, 128, 240, 128, 128 >>

(***************************************************************************)
(* Bit arithmetic on naturals, as the Rust operators compute it.           *)
(***************************************************************************)
RECURSIVE BitAnd(_, _)
BitAnd(a, b) ==
    IF a = 0 \/ b = 0 THEN 0
    ELSE (a % 2) * (b % 2) + 2 * BitAnd(a \div 2, b \div 2)

RECURSIVE BitOr(_, _)
BitOr(a, b) ==
    IF a = 0 THEN b
    ELSE IF b = 0 THEN a
    ELSE (IF a % 2 = 1 \/ b % 2 = 1 THEN 1 ELSE 0) + 2 * BitOr(a \div 2, b \div 2)

RECURSIVE BitXor(_, _)
BitXor(a, b) ==
    IF a = 0 THEN b
    ELSE IF b = 0 THEN a
    ELSE ((a + b) % 2) + 2 * BitXor(a \div 2, b \div 2)

RECURSIVE Pow2(_)
Pow2(n) == IF n = 0 THEN 1 ELSE 2 * Pow2(n - 1)

Shr(a, n) == a \div Pow2(n)

\* The operand fields of an opcode.
OpX(opcode) == Shr(BitAnd(opcode, \h0F00), 8)
OpY(opcode) == Shr(BitAnd(opcode, \h00F0), 4)
OpN(opcode) == BitAnd(opcode, \h000F)
OpNN(opcode) == BitAnd(opcode, \h00FF)
OpNNN(opcode) == BitAnd(opcode, \h0FFF)

(***************************************************************************)
(* The state.                                                              *)
(***************************************************************************)
VARIABLES
    chip8,            \* the machine: struct Chip8
    overflow_checks,  \* the build: TRUE when arithmetic overflow panics (dev
                      \* profile), FALSE when it wraps (release profile)
    file,             \* the ROM file named on the command line: its bytes,
                      \* or Unreadable
    result,           \* what load_rom returned
    mainpc,           \* where main is
    keydown,          \* the key the last poll of the event pump reported down
    screen,           \* the frame last presented on the canvas
    frames            \* iterations of the driver loop so far

vars == << chip8, overflow_checks, file, result, mainpc, keydown, screen, frames >>

Unreadable == << -1 >>

\* An array of bytes as the function of its nonzero elements.
Get(arr, i) == IF i \in DOMAIN arr THEN arr[i] ELSE 0
Put(arr, i, val) ==
    IF val = 0 THEN [j \in DOMAIN arr \ { i } |-> arr[j]]
    ELSE [j \in DOMAIN arr \cup { i } |-> IF j = i THEN val ELSE arr[j]]
\* Put for every index of the function vals.
PutAll(arr, idxs, vals) ==
    [j \in (DOMAIN arr \ idxs) \cup { i \in idxs : vals[i] # 0 } |->
        IF j \in idxs THEN vals[j] ELSE arr[j]]
Zeroed == [j \in {} |-> 0]

\* A panic stops the running function: the writes made so far stay.
Panic(c, why) == [c EXCEPT !.panic = why]

\* Chip8::new, with load_fontset.
RECURSIVE load_fontset_from(_, _)
load_fontset_from(c, i) ==
    IF i = Len(CHIP8_FONTSET) THEN c
    ELSE load_fontset_from(
             [c EXCEPT !.memory = Put(c.memory, FontBase + i, CHIP8_FONTSET[i + 1])],
             i + 1)

load_fontset(c) == load_fontset_from(c, 0)

new ==
    load_fontset(
        [ v |-> [i \in 0 .. NumRegs - 1 |-> 0],
          index |-> 0,
          pc |-> PcStart,
          sp |-> 0,
          stack |-> [i \in 0 .. StackSize - 1 |-> 0],
          memory |-> Zeroed,
          delay_timer |-> 0,
          sound_timer |-> 0,
          opcode |-> 0,
          display |-> Zeroed,
          key |-> [i \in 0 .. NumKeys - 1 |-> 0],
          draw_flag |-> FALSE,
          panic |-> "none" ])

\* load_rom with the copy started at address 0 instead of 0x200.
load_rom_unbased(c, buffer) ==
    LET copied == { i \in 0 .. Len(buffer) - 1 : i < MemSize }
    IN  [c EXCEPT !.memory =
            PutAll(c.memory, copied, [a \in copied |-> buffer[a + 1]])]

\* load_rom with the fit test off by one: the last byte that fits is dropped.
load_rom_short(c, buffer) ==
    LET copied == { i \in 0 .. Len(buffer) - 1 : i + RomBase < MemSize - 1 }
    IN  [c EXCEPT !.memory =
            PutAll(c.memory, { i + RomBase : i \in copied },
                   [a \in { i + RomBase : i \in copied } |-> buffer[a - RomBase + 1]])]

\* Chip8::load_rom, after the file was read into buffer: byte i goes to
\* memory[i + 512] while i + 512 < memory.len(), and the loop breaks at the
\* first byte that does not fit.
load_rom(c, buffer) ==
    LET copied == { i \in 0 .. Len(buffer) - 1 : i + RomBase < MemSize }
    IN  [c EXCEPT !.memory =
            PutAll(c.memory, { i + RomBase : i \in copied },
                   [a \in { i + RomBase : i \in copied } |-> buffer[a - RomBase + 1]])]

\* Chip8::fetch_opcode: two indexed reads, each bounds-checked.
FetchPanics(c) == c.pc >= MemSize \/ c.pc + 1 >= MemSize
fetch_opcode(c) == BitOr(Get(c.memory, c.pc) * 256, Get(c.memory, c.pc + 1))

(***************************************************************************)
(* Instructions.                                                           *)
(***************************************************************************)
\* self.pc += n.  A fetch needs pc <= 4094, so the u16 sum never overflows.
PcAdd(c, n) == [c EXCEPT !.pc = c.pc + n]
SetV(c, x, val) == [c EXCEPT !.v[x] = val]

\* 00E0
cls(c) == PcAdd(c, 2)

\* ret with wrapping arithmetic and the stack index taken modulo its length.
ret_wrapping(c) ==
    LET sp1 == (c.sp - 1) % U16
    IN  [c EXCEPT !.sp = sp1, !.pc = (c.stack[sp1 % StackSize] + 2) % U16]

\* 00EE: sp -= 1; pc = stack[sp] - 2; pc += 4.
ret(c) ==
    IF c.sp = 0 /\ overflow_checks THEN Panic(c, "overflow")
    ELSE LET sp1 == (c.sp - 1) % U16
             c1 == [c EXCEPT !.sp = sp1]
         IN  IF sp1 >= StackSize THEN Panic(c1, "bounds")
             ELSE IF c1.stack[sp1] < 2 /\ overflow_checks THEN Panic(c1, "overflow")
             ELSE LET c2 == [c1 EXCEPT !.pc = (c1.stack[sp1] - 2) % U16]
                  IN  IF c2.pc + 4 >= U16 /\ overflow_checks THEN Panic(c2, "overflow")
                      ELSE [c2 EXCEPT !.pc = (c2.pc + 4) % U16]

\* 1NNN
jmp(c, opcode) == [c EXCEPT !.pc = OpNNN(opcode)]

\* jsr with the stack index taken modulo its length.
jsr_wrapping(c, opcode) ==
    [c EXCEPT !.stack[c.sp % StackSize] = c.pc, !.sp = c.sp + 1, !.pc = OpNNN(opcode)]

\* 2NNN: stack[sp] = pc; sp += 1; pc = NNN.
jsr(c, opcode) ==
    IF c.sp >= StackSize THEN Panic(c, "bounds")
    ELSE [c EXCEPT !.stack[c.sp] = c.pc, !.sp = c.sp + 1, !.pc = OpNNN(opcode)]

\* 3XNN
skeq_c(c, opcode) ==
    LET x == OpX(opcode)
        nn == OpNN(opcode)
    IN  PcAdd(IF c.v[x] = nn THEN PcAdd(c, 2) ELSE c, 2)

\* 4XNN
skne_c(c, opcode) ==
    LET x == OpX(opcode)
        nn == OpNN(opcode)
    IN  PcAdd(IF c.v[x] # nn THEN PcAdd(c, 2) ELSE c, 2)

\* 5XY0
skeq_r(c, opcode) ==
    LET x == OpX(opcode)
        y == OpY(opcode)
    IN  PcAdd(IF c.v[x] = c.v[y] THEN PcAdd(c, 2) ELSE c, 2)

\* 6XNN
mov_c(c, opcode) == PcAdd(SetV(c, OpX(opcode), OpNN(opcode)), 2)

\* 7XNN: wrapping_add.
add_c(c, opcode) ==
    LET x == OpX(opcode)
    IN  PcAdd(SetV(c, x, (c.v[x] + OpNN(opcode)) % U8), 2)

\* 8XY0
mov_r(c, opcode) == PcAdd(SetV(c, OpX(opcode), c.v[OpY(opcode)]), 2)

\* 8XY1
or_r(c, opcode) ==
    LET x == OpX(opcode)
    IN  PcAdd(SetV(c, x, BitOr(c.v[x], c.v[OpY(opcode)])), 2)

\* 8XY2
and_r(c, opcode) ==
    LET x == OpX(opcode)
    IN  PcAdd(SetV(c, x, BitAnd(c.v[x], c.v[OpY(opcode)])), 2)

\* 8XY3
xor_r(c, opcode) ==
    LET x == OpX(opcode)
    IN  PcAdd(SetV(c, x, BitXor(c.v[x], c.v[OpY(opcode)])), 2)

\* 8XY4 with the two writes in the other order: the flag first, the sum last.
add_r_flag_first(c, opcode) ==
    LET x == OpX(opcode)
        y == OpY(opcode)
        sum == c.v[x] + c.v[y]
        carry == IF sum >= U8 THEN 1 ELSE 0
    IN  PcAdd(SetV(SetV(c, 15, carry), x, sum % U8), 2)

\* 8XY4: overflowing_add; v[x] is written first, v[0xF] after it.
add_r(c, opcode) ==
    LET x == OpX(opcode)
        y == OpY(opcode)
        sum == c.v[x] + c.v[y]
        carry == IF sum >= U8 THEN 1 ELSE 0
    IN  PcAdd(SetV(SetV(c, x, sum % U8), 15, carry), 2)

\* 8XY5 with the flag raised only when vx is strictly greater than vy.
sub_r_strict(c, opcode) ==
    LET x == OpX(opcode)
        y == OpY(opcode)
        vx == c.v[x]
        vy == c.v[y]
        c1 == SetV(c, x, (c.v[x] - c.v[y]) % U8)
    IN  PcAdd(SetV(c1, 15, IF vx > vy THEN 1 ELSE 0), 2)

\* 8XY5: wrapping_sub; the flag is decided from the values read before it.
sub_r(c, opcode) ==
    LET x == OpX(opcode)
        y == OpY(opcode)
        vx == c.v[x]
        vy == c.v[y]
        c1 == SetV(c, x, (c.v[x] - c.v[y]) % U8)
    IN  PcAdd(SetV(c1, 15, IF vx >= vy THEN 1 ELSE 0), 2)

\* 8XY6
shr_r(c, opcode) ==
    LET x == OpX(opcode)
        lsb == BitAnd(c.v[x], 1)
    IN  PcAdd(SetV(SetV(c, x, Shr(c.v[x], 1)), 15, lsb), 2)

\* 8XY7
rsb_r(c, opcode) ==
    LET x == OpX(opcode)
        y == OpY(opcode)
        vx == c.v[x]
        vy == c.v[y]
        c1 == SetV(c, x, (c.v[y] - c.v[x]) % U8)
    IN  PcAdd(SetV(c1, 15, IF vy >= vx THEN 1 ELSE 0), 2)

\* 8XYE
shl_r(c, opcode) ==
    LET x == OpX(opcode)
        msb == Shr(BitAnd(c.v[x], 128), 7)
    IN  PcAdd(SetV(SetV(c, x, (c.v[x] * 2) % U8), 15, msb), 2)

\* 9XY0
skne_r(c, opcode) ==
    LET x == OpX(opcode)
        y == OpY(opcode)
    IN  PcAdd(IF c.v[x] # c.v[y] THEN PcAdd(c, 2) ELSE c, 2)

\* ANNN
mvi(c, opcode) == PcAdd([c EXCEPT !.index = OpNNN(opcode)], 2)

\* BNNN: nnn is cast to u8 and added to v[0] in u8.
jmi(c, opcode) ==
    LET nnn == OpNNN(opcode) % U8
    IN  IF nnn + c.v[0] >= U8 /\ overflow_checks THEN Panic(c, "overflow")
        ELSE [c EXCEPT !.pc = (nnn + c.v[0]) % U8]

\* CXNN: rnd is the byte the generator returns.
rand(c, opcode, rnd) == SetV(c, OpX(opcode), BitAnd(rnd, OpNN(opcode)))

\* The inner loop of DXYN with the pixel set where the code toggles it.
RECURSIVE sprite_bits_set(_, _, _, _, _, _)
sprite_bits_set(c, pixel, vx, vy, yline, xline) ==
    IF xline = 8 THEN c
    ELSE IF BitAnd(pixel, Shr(128, xline)) # 0
         THEN LET idx == ((vx + xline) % 64) + (((vy + yline) % 32) * 64)
                  c1 == IF Get(c.display, idx) = 1 THEN SetV(c, 15, 1) ELSE c
                  c2 == [c1 EXCEPT !.display = Put(c1.display, idx, 1)]
              IN  sprite_bits_set(c2, pixel, vx, vy, yline, xline + 1)
         ELSE sprite_bits_set(c, pixel, vx, vy, yline, xline + 1)

\* The inner loop of DXYN without the collision test.
RECURSIVE sprite_bits_noflag(_, _, _, _, _, _)
sprite_bits_noflag(c, pixel, vx, vy, yline, xline) ==
    IF xline = 8 THEN c
    ELSE IF BitAnd(pixel, Shr(128, xline)) # 0
         THEN LET idx == ((vx + xline) % 64) + (((vy + yline) % 32) * 64)
                  c2 == [c EXCEPT !.display =
                            Put(c.display, idx, BitXor(Get(c.display, idx), 1))]
              IN  sprite_bits_noflag(c2, pixel, vx, vy, yline, xline + 1)
         ELSE sprite_bits_noflag(c, pixel, vx, vy, yline, xline + 1)

\* The inner loop of DXYN with the origin reduced modulo 64 and the column
\* added after it, so a row that crosses column 63 runs on into the next row.
RECURSIVE sprite_bits_nowrap(_, _, _, _, _, _)
sprite_bits_nowrap(c, pixel, vx, vy, yline, xline) ==
    IF xline = 8 THEN c
    ELSE IF BitAnd(pixel, Shr(128, xline)) # 0
         THEN LET idx == ((vx % 64) + xline) + (((vy + yline) % 32) * 64)
                  c1 == IF Get(c.display, idx) = 1 THEN SetV(c, 15, 1) ELSE c
                  c2 == [c1 EXCEPT !.display =
                            Put(c1.display, idx, BitXor(Get(c1.display, idx), 1))]
              IN  sprite_bits_nowrap(c2, pixel, vx, vy, yline, xline + 1)
         ELSE sprite_bits_nowrap(c, pixel, vx, vy, yline, xline + 1)

\* The inner loop of DXYN with VF assigned at every plotted pixel, so a
\* later pixel that does not collide clears it.
RECURSIVE sprite_bits_unsticky(_, _, _, _, _, _)
sprite_bits_unsticky(c, pixel, vx, vy, yline, xline) ==
    IF xline = 8 THEN c
    ELSE IF BitAnd(pixel, Shr(128, xline)) # 0
         THEN LET idx == ((vx + xline) % 64) + (((vy + yline) % 32) * 64)
                  c1 == SetV(c, 15, IF Get(c.display, idx) = 1 THEN 1 ELSE 0)
                  c2 == [c1 EXCEPT !.display =
                            Put(c1.display, idx, BitXor(Get(c1.display, idx), 1))]
              IN  sprite_bits_unsticky(c2, pixel, vx, vy, yline, xline + 1)
         ELSE sprite_bits_unsticky(c, pixel, vx, vy, yline, xline + 1)

\* DXYN: the inner loop over the 8 bits of one sprite row.
RECURSIVE sprite_bits(_, _, _, _, _, _)
sprite_bits(c, pixel, vx, vy, yline, xline) ==
    IF xline = 8 THEN c
    ELSE IF BitAnd(pixel, Shr(128, xline)) # 0
         THEN LET x_pos == (vx + xline) % 64
                  y_pos == (vy + yline) % 32
                  idx == x_pos + (y_pos * 64)
                  c1 == IF Get(c.display, idx) = 1 THEN SetV(c, 15, 1) ELSE c
                  c2 == [c1 EXCEPT !.display =
                            Put(c1.display, idx, BitXor(Get(c1.display, idx), 1))]
              IN  sprite_bits(c2, pixel, vx, vy, yline, xline + 1)
         ELSE sprite_bits(c, pixel, vx, vy, yline, xline + 1)

\* DXYN: the outer loop over the rows; memory[index + yline] is bounds-checked.
RECURSIVE sprite_rows(_, _, _, _, _)
sprite_rows(c, vx, vy, height, yline) ==
    IF yline = height THEN c
    ELSE IF c.index + yline >= MemSize THEN Panic(c, "bounds")
    ELSE sprite_rows(sprite_bits(c, Get(c.memory, c.index + yline), vx, vy, yline, 0),
                     vx, vy, height, yline + 1)

sprite(c, opcode) ==
    LET vx == c.v[OpX(opcode)]
        vy == c.v[OpY(opcode)]
        height == OpN(opcode)
        c1 == sprite_rows(SetV(c, 15, 0), vx, vy, height, 0)
    IN  IF c1.panic # "none" THEN c1
        ELSE PcAdd([c1 EXCEPT !.draw_flag = TRUE], 2)

\* EX9E: key[v[x]] is bounds-checked.
skpr(c, opcode) ==
    LET x == OpX(opcode)
    IN  IF c.v[x] >= NumKeys THEN Panic(c, "bounds")
        ELSE PcAdd(IF c.key[c.v[x]] # 0 THEN PcAdd(c, 2) ELSE c, 2)

\* EXA1
skup(c, opcode) ==
    LET x == OpX(opcode)
    IN  IF c.v[x] >= NumKeys THEN Panic(c, "bounds")
        ELSE PcAdd(IF c.key[c.v[x]] = 0 THEN PcAdd(c, 2) ELSE c, 2)

\* FX07
gdelay(c, opcode) == PcAdd(SetV(c, OpX(opcode), c.delay_timer), 2)

\* FX0A: the function body is empty.
key(c, opcode) == c

\* FX15: the body assigns v[x] = sound_timer.
sdelay(c, opcode) == PcAdd(SetV(c, OpX(opcode), c.sound_timer), 2)

\* FX18
ssound(c, opcode) == PcAdd([c EXCEPT !.sound_timer = c.v[OpX(opcode)]], 2)

\* FX1E: index += v[x] in u16.
adi(c, opcode) ==
    LET sum == c.index + c.v[OpX(opcode)]
    IN  IF sum >= U16 /\ overflow_checks THEN Panic(c, "overflow")
        ELSE PcAdd([c EXCEPT !.index = sum % U16], 2)

\* FX29: 0x50 + v[x] * 5, both operations in u8.
font(c, opcode) ==
    LET prod == c.v[OpX(opcode)] * 5
        sum == FontBase + (prod % U8)
    IN  IF prod >= U8 /\ overflow_checks THEN Panic(c, "overflow")
        ELSE IF sum >= U8 /\ overflow_checks THEN Panic(c, "overflow")
        ELSE PcAdd([c EXCEPT !.index = sum % U8], 2)

\* One bounds-checked store memory[addr] = val.
Store(c, addr, val) ==
    IF c.panic # "none" THEN c
    ELSE IF addr >= MemSize THEN Panic(c, "bounds")
    ELSE [c EXCEPT !.memory = Put(c.memory, addr, val)]

\* FX33: three stores, in this order.
bcd(c, opcode) ==
    LET vx == c.v[OpX(opcode)]
        c1 == Store(c, c.index, vx \div 100)
        c2 == Store(c1, c.index + 1, (vx \div 10) % 10)
        c3 == Store(c2, c.index + 2, (vx % 100) % 10)
    IN  IF c3.panic # "none" THEN c3 ELSE PcAdd(c3, 2)

\* FX55: for i in 0..=x { memory[index + i] = v[i] }.
RECURSIVE str_loop(_, _, _)
str_loop(c, x, i) ==
    IF i > x \/ c.panic # "none" THEN c
    ELSE str_loop(Store(c, c.index + i, c.v[i]), x, i + 1)

str(c, opcode) ==
    LET c1 == str_loop(c, OpX(opcode), 0)
    IN  IF c1.panic # "none" THEN c1 ELSE PcAdd(c1, 2)

\* FX65: for i in 0..=x { v[i] = memory[index + i] }.
RECURSIVE ldr_loop(_, _, _)
ldr_loop(c, x, i) ==
    IF i > x THEN c
    ELSE IF c.index + i >= MemSize THEN Panic(c, "bounds")
    ELSE ldr_loop(SetV(c, i, Get(c.memory, c.index + i)), x, i + 1)

ldr(c, opcode) ==
    LET c1 == ldr_loop(c, OpX(opcode), 0)
    IN  IF c1.panic # "none" THEN c1 ELSE PcAdd(c1, 2)

(***************************************************************************)
(* Decode and execute, the timer tick, one cycle.                          *)
(***************************************************************************)
decode_execute(c, opcode, rnd) ==
    LET family == BitAnd(opcode, \hF000)
        low_byte == BitAnd(opcode, \h00FF)
        low_nibble == BitAnd(opcode, \h000F)
    IN  CASE family = \h0000 ->
                (CASE low_byte = \hE0 -> cls(c)
                   [] low_byte = \hEE -> ret(c)
                   [] OTHER -> PcAdd(c, 2))
          [] family = \h1000 -> jmp(c, opcode)
          [] family = \h2000 -> jsr(c, opcode)
          [] family = \h3000 -> skeq_c(c, opcode)
          [] family = \h4000 -> skne_c(c, opcode)
          [] family = \h5000 -> skeq_r(c, opcode)
          [] family = \h6000 -> mov_c(c, opcode)
          [] family = \h7000 -> add_c(c, opcode)
          [] family = \h8000 ->
                (CASE low_nibble = \h0 -> mov_r(c, opcode)
                   [] low_nibble = \h1 -> or_r(c, opcode)
                   [] low_nibble = \h2 -> and_r(c, opcode)
                   [] low_nibble = \h3 -> xor_r(c, opcode)
                   [] low_nibble = \h4 -> add_r(c, opcode)
                   [] low_nibble = \h5 -> sub_r(c, opcode)
                   [] low_nibble = \h6 -> shr_r(c, opcode)
                   [] low_nibble = \h7 -> rsb_r(c, opcode)
                   [] low_nibble = \hE -> shl_r(c, opcode)
                   [] OTHER -> PcAdd(c, 2))
          [] family = \h9000 -> skne_r(c, opcode)
          [] family = \hA000 -> mvi(c, opcode)
          [] family = \hB000 -> jmi(c, opcode)
          [] family = \hC000 -> rand(c, opcode, rnd)
          [] family = \hD000 -> sprite(c, opcode)
          [] family = \hE000 ->
                (CASE low_nibble = \hE -> skpr(c, opcode)
                   [] low_nibble = \h1 -> skup(c, opcode)
                   [] OTHER -> PcAdd(c, 2))
          [] family = \hF000 ->
                (CASE low_byte = \h07 -> gdelay(c, opcode)
                   [] low_byte = \h0A -> key(c, opcode)
                   [] low_byte = \h15 -> sdelay(c, opcode)
                   [] low_byte = \h18 -> ssound(c, opcode)
                   [] low_byte = \h1E -> adi(c, opcode)
                   [] low_byte = \h29 -> font(c, opcode)
                   [] low_byte = \h33 -> bcd(c, opcode)
                   [] low_byte = \h55 -> str(c, opcode)
                   [] low_byte = \h65 -> ldr(c, opcode)
                   [] OTHER -> PcAdd(c, 2))
          [] OTHER -> PcAdd(c, 2)

\* The two timer updates that end Chip8::cycle.
update_delay_timer(c) ==
    IF c.delay_timer > 0 THEN [c EXCEPT !.delay_timer = c.delay_timer - 1] ELSE c

\* The sound timer update without its test for zero.
update_sound_timer_unguarded(c) ==
    [c EXCEPT !.sound_timer = (c.sound_timer - 1) % U8]

update_sound_timer(c) ==
    IF c.sound_timer > 0 THEN [c EXCEPT !.sound_timer = c.sound_timer - 1] ELSE c

\* Chip8::cycle: fetch, decode and execute, then the timers.  A panic in the
\* fetch or in the instruction ends the call before the timers.
cycle(c, rnd) ==
    IF FetchPanics(c) THEN Panic(c, "bounds")
    ELSE LET c1 == [c EXCEPT !.opcode = fetch_opcode(c)]
             c2 == decode_execute(c1, c1.opcode, rnd)
         IN  IF c2.panic # "none" THEN c2
             ELSE update_sound_timer(update_delay_timer(c2))

(***************************************************************************)
(* The ROM files explored, each a sequence of bytes.                       *)
(***************************************************************************)
\* The bytes of a sequence of 16-bit words, big-endian.
Bytes(words) ==
    [i \in 1 .. 2 * Len(words) |->
        IF i % 2 = 1 THEN words[(i + 1) \div 2] \div 256
        ELSE words[i \div 2] % 256]

\* 0x200: VB := random & 0x0F; 0x202: jump 0x202.
RomRand == Bytes(<< \hCB0F, \h1202 >>)

\* Words that match no row of the instruction table, then a return.
RomUnknown ==
    Bytes(<< \h0123, \h8AB8, \hF1FF, \hE19F, \hE001, \h1200, \hE10E, \h02EE >>)

\* 0x200: V3 := 5; 0x202: wait for a key into V3; 0x204: jump 0x204.
RomWaitKey == Bytes(<< \h6305, \hF30A, \h1204 >>)

\* Stores through the index register: FX33 and FX55 at 0x300 and 0x310
\* first, then FX33 at 0x050 and FX55 at 0x09E, inside the font region.
RomFontStore ==
    Bytes(<< \hA300, \h60FF, \hF033, \hA310, \h6111, \hF155,
             \hA050, \hF033, \hA09E, \hF155, \h1214 >>)

\* 0x200: call 0x200.
RomRecurse == Bytes(<< \h2200 >>)

\* 0x200: return.
RomUnderflow == Bytes(<< \h00EE >>)

\* Sixteen nested calls, 0x200 + 4i: call 0x204 + 4i, each followed by a
\* return at 0x202 + 4i; the innermost call lands on a return at 0x240.
RomChain ==
    Bytes([i \in 1 .. 2 * StackSize + 1 |->
        IF i % 2 = 1 /\ i < 2 * StackSize + 1
        THEN \h2000 + PcStart + 2 * (i + 1)
        ELSE \h00EE])

\* Writes the word 220A (call 0x20A) at address 0 and jumps to it; 0x20A
\* returns.
RomLowCall == Bytes(<< \hA000, \h6022, \h610A, \hF155, \h1000, \h00EE >>)

\* 0x200: V0 := 5; 0x202: sound_timer := V0; 0x204: jump 0x204.
RomSound == Bytes(<< \h6005, \hF018, \h1204 >>)

\* 0x200: V0 := 7; 0x202: FX15 on V0; 0x204: FX07 into V1; 0x206: jump 0x206.
RomDelay == Bytes(<< \h6007, \hF015, \hF107, \h1206 >>)

\* A file of exactly the 3584 bytes that fit, and one OversizeBy bytes
\* longer; both start with jump 0x200 and hold no zero byte after it.
Filler(len) ==
    [i \in 1 .. len |->
        IF i = 1 THEN \h12 ELSE IF i = 2 THEN \h00 ELSE (i % 255) + 1]

RomFull == Filler(Capacity)
RomOversize == Filler(Capacity + OversizeBy)

\* The number of additions of 0xFF that take the index from 0xFFF past 0xFFFF.
AddsToWrap == ((U16 - \hFFF) \div \hFF) + 1

\* I := 0xFFF, V0 := 0xFF, then FX1E with X = 0 AddsToWrap times in a row,
\* then a return at depth 0.
RomIndexWrap ==
    Bytes([i \in 1 .. AddsToWrap + 3 |->
              IF i = 1 THEN \hAFFF
              ELSE IF i = 2 THEN \h60FF
              ELSE IF i = AddsToWrap + 3 THEN \h00EE
              ELSE \hF01E])

\* 0x200: V0 := 4; 0x202: jump to 0x300 + V0.
RomJumpIndexed == Bytes(<< \h6004, \hB300 >>)

\* The byte values the arithmetic ROMs put in V0 and V1.
ByteSamples == { \h00, \h01, \h64, \h80, \hC8, \hFF }

\* V0 := a, V1 := b, then 8014; the same before 8015 and before 8017; then a
\* return at depth 0, which ends the run.
RomArith(a, b) ==
    Bytes(<< \h6000 + a, \h6100 + b, \h8014,
             \h6000 + a, \h6100 + b, \h8015,
             \h6000 + a, \h6100 + b, \h8017, \h00EE >>)

\* 8XY4, 8XY5 and 8XY7 with the flag register as X, as Y, and with X = Y.
RomFlagReg ==
    Bytes(<< \h61C8, \h6F64, \h8F14, \h6F64, \h8F15, \h6F64, \h8F17,
             \h60C8, \h6F64, \h80F4, \h6F64, \h80F5, \h6F64, \h80F7,
             \h62C8, \h8224, \h8225, \h8227, \h00EE >>)

\* Every skip instruction with its condition true and false (the word after
\* a taken skip is 0000), then EX9E with V0 = 16.
RomSkips ==
    Bytes(<< \h6005, \h3005, \h0000, \h3006, \h4005, \h4006, \h0000,
             \h6105, \h5010, \h0000, \h6106, \h5010, \h9010, \h0000,
             \h6105, \h9010, \hE09E, \hE0A1, \h0000, \h6010, \hE09E >>)

\* V0 := 16, then EXA1 on the key code 16.
RomKeyCode == Bytes(<< \h6010, \hE0A1 >>)

\* V0 := 1, then EX9E and EXA1 on the key code 1; the word after EXA1 is
\* skipped; then a return at depth 0.
RomKeySkips == Bytes(<< \h6001, \hE09E, \hE0A1, \h0000, \h00EE >>)

\* Glyph 0 drawn three times at (0, 0), glyph 1 drawn twice over it, then
\* 00E0 and a return at depth 0.
RomDraw ==
    Bytes(<< \hA050, \hD015, \hD015, \hD015, \hA055, \hD015, \hD015,
             \h00E0, \h00EE >>)

\* The two rows FF 81 at 0x218 drawn at (60, 31) and at (250, 255); then two
\* zero rows from 0x300 and a sprite of no rows.
RomWrap ==
    Bytes(<< \h603C, \h611F, \hA218, \hD012, \h60FA, \h61FF, \hD012,
             \hA300, \hD012, \hD010, \h00EE, \h0000, \hFF81 >>)

\* Glyph 0 drawn twice with the flag register as X: the draw resets VF, so
\* the second origin is not the first.
RomDrawFlagReg == Bytes(<< \h6F03, \hA050, \hDF05, \hDF05, \h00EE >>)

\* FF FF stored at 0xFFE and a three-row sprite drawn from there: the third
\* row is past the end of memory.
RomDrawEdge == Bytes(<< \hAFFE, \h60FF, \h61FF, \hF155, \hD223 >>)

Files ==
    { Unreadable, RomRand, RomUnknown, RomWaitKey, RomFontStore, RomRecurse,
      RomUnderflow, RomChain, RomLowCall, RomSound, RomDelay, RomFull,
      RomOversize, RomJumpIndexed, RomFlagReg, RomSkips, RomDraw, RomWrap,
      RomDrawFlagReg, RomDrawEdge, RomKeyCode, RomIndexWrap,
      RomKeySkips }
      \cup { RomArith(a, b) : a \in ByteSamples, b \in ByteSamples }

\* The bytes the random generator can return.
RandBytes == { \h00, \hA5, \hFF }

\* What one poll of the event pump delivers: a quit request or not, and
\* the key that went down, if any.
KeyPresses == { << >> } \cup { << k >> : k \in 0 .. MaxKey }

(***************************************************************************)
(* main.                                                                   *)
(***************************************************************************)
Init ==
    /\ chip8 = new
    /\ overflow_checks \in BOOLEAN
    /\ file \in Files
    /\ result = "none"
    /\ mainpc = "load"
    /\ keydown = << >>
    /\ screen = Zeroed
    /\ frames = 0

\* let _ = chip8.load_rom(&args[1]): the result is dropped.
LoadRom ==
    /\ mainpc = "load"
    /\ IF file = Unreadable
       THEN /\ result' = "Err"
            /\ chip8' = chip8
       ELSE /\ result' = "Ok"
            /\ chip8' = load_rom(chip8, file)
    /\ mainpc' = "video"
    /\ UNCHANGED << overflow_checks, file, keydown, screen, frames >>

\* sdl2::init()?, the window, the canvas, the event pump: each can fail
\* and end main.
InitVideo ==
    /\ mainpc = "video"
    /\ \E ok \in BOOLEAN : mainpc' = IF ok THEN "poll" ELSE "exit"
    /\ UNCHANGED << chip8, overflow_checks, file, result, keydown, screen, frames >>

\* The head of the loop with a key-down event stored into the key array.
PollEvents_sets_key ==
    /\ mainpc = "poll"
    /\ frames < MaxFrames
    /\ \E quit \in BOOLEAN, kd \in KeyPresses :
          /\ keydown' = kd
          /\ mainpc' = IF quit THEN "exit" ELSE "cycle"
          /\ chip8' = IF kd = << >> THEN chip8
                       ELSE [chip8 EXCEPT !.key[kd[1]] = 1]
    /\ frames' = frames + 1
    /\ UNCHANGED << overflow_checks, file, result, screen >>

\* The head of the loop: Quit and Escape break out, every other event is
\* dropped.
PollEvents ==
    /\ mainpc = "poll"
    /\ frames < MaxFrames
    /\ \E quit \in BOOLEAN, kd \in KeyPresses :
          /\ keydown' = kd
          /\ mainpc' = IF quit THEN "exit" ELSE "cycle"
    /\ frames' = frames + 1
    /\ UNCHANGED << chip8, overflow_checks, file, result, screen >>

\* chip8.cycle()
Cycle ==
    /\ mainpc = "cycle"
    /\ \E rnd \in RandBytes : chip8' = cycle(chip8, rnd)
    /\ mainpc' = IF chip8'.panic # "none" THEN "panic" ELSE "render"
    /\ UNCHANGED << overflow_checks, file, result, keydown, screen, frames >>

\* The render step without the assignment draw_flag = false.
Render_keeps_flag ==
    /\ mainpc = "render"
    /\ IF chip8.draw_flag
       THEN /\ screen' = chip8.display
            /\ chip8' = chip8
       ELSE UNCHANGED << screen, chip8 >>
    /\ mainpc' = "poll"
    /\ UNCHANGED << overflow_checks, file, result, keydown, frames >>

\* if chip8.draw_flag { paint the display; draw_flag = false; present }
Render ==
    /\ mainpc = "render"
    /\ IF chip8.draw_flag
       THEN /\ screen' = chip8.display
            /\ chip8' = [chip8 EXCEPT !.draw_flag = FALSE]
       ELSE UNCHANGED << screen, chip8 >>
    /\ mainpc' = "poll"
    /\ UNCHANGED << overflow_checks, file, result, keydown, frames >>

Next == LoadRom \/ InitVideo \/ PollEvents \/ Cycle \/ Render

Spec == Init /\ [][Next]_vars

\* The loop body is straight-line code on one thread: once chip8.cycle()
\* has returned, the if chip8.draw_flag block that follows it is executed.
FairSpec == Spec /\ WF_vars(Render)

(***************************************************************************)
(* Vocabulary of the properties.                                           *)
(***************************************************************************)
\* The step is a call of chip8.cycle() by the driver loop.
CycleStep == mainpc = "cycle" /\ mainpc' # "cycle"

\* The opcode a cycle started now fetches.
Fetchable == ~FetchPanics(chip8)
Fetched == fetch_opcode(chip8)

Family(op) == op \div 4096
LowByte(op) == op % 256
LowNibble(op) == op % 16

\* The rows of the instruction table that set the program counter or may
\* advance it by more than 2: jumps, call, return, skips, wait-key.
IsControl(op) ==
    \/ Family(op) \in { 1, 2, 3, 4, 11 }
    \/ op = \h00EE
    \/ Family(op) \in { 5, 9 } /\ LowNibble(op) = 0
    \/ Family(op) = 14 /\ LowByte(op) \in { \h9E, \hA1 }
    \/ Family(op) = 15 /\ LowByte(op) = \h0A

\* The words of the families 0, 8, E and F that are no row of the table.
IsUnknown(op) ==
    \/ Family(op) = 0 /\ op \notin { \h00E0, \h00EE }
    \/ Family(op) = 8 /\ LowNibble(op) \in (8 .. 13) \cup { 15 }
    \/ Family(op) = 14 /\ LowByte(op) \notin { \h9E, \hA1 }
    \/ Family(op) = 15
         /\ LowByte(op) \notin { \h07, \h0A, \h15, \h18, \h1E, \h29, \h33, \h55, \h65 }

FontRegion(c) == [i \in 1 .. Len(CHIP8_FONTSET) |-> Get(c.memory, FontBase + i - 1)]
FontIntact == FontRegion(chip8) = CHIP8_FONTSET

(***************************************************************************)
(* C1.  Every opcode that is not a jump, call, return, skip or wait-key    *)
(* leaves program_counter exactly 2 greater after one cycle; CXNN too.     *)
(* The code's rand never touches pc, so the statement fails.               *)
(***************************************************************************)
C1PlainOpcodeAdvancesByTwo ==
    [][ (CycleStep /\ Fetchable /\ ~IsControl(Fetched))
            => chip8'.pc = chip8.pc + 2 ]_vars

(***************************************************************************)
(* C2.  A word of the families 0, 8, E, F that is no row of the table is   *)
(* a no-op: pc + 2, and registers, index, stack, stack pointer, memory,    *)
(* display and draw_flag unchanged.  The code decodes the 0 family on the  *)
(* low byte and the E family on the low nibble alone, so 0NEE returns and  *)
(* EXN1 / EXNE skip.                                                       *)
(***************************************************************************)
C2UnknownOpcodeIsNoOp ==
    [][ (CycleStep /\ Fetchable /\ IsUnknown(Fetched))
            => /\ chip8'.pc = chip8.pc + 2
               /\ chip8'.v = chip8.v
               /\ chip8'.index = chip8.index
               /\ chip8'.stack = chip8.stack
               /\ chip8'.sp = chip8.sp
               /\ chip8'.memory = chip8.memory
               /\ chip8'.display = chip8.display
               /\ chip8'.draw_flag = chip8.draw_flag ]_vars

(***************************************************************************)
(* C3.  At FX0A a cycle with no key down leaves pc and Vx unchanged, and a *)
(* cycle with key k down stores k in Vx and advances pc by 2.  The code's  *)
(* key function is empty and the driver drops every key event.             *)
(***************************************************************************)
C3WaitKeyResumesOnPress ==
    [][ (CycleStep /\ Fetchable /\ Family(Fetched) = 15 /\ LowByte(Fetched) = \h0A)
            => IF keydown = << >>
               THEN /\ chip8'.pc = chip8.pc
                    /\ chip8'.v[OpX(Fetched)] = chip8.v[OpX(Fetched)]
               ELSE /\ chip8'.pc = chip8.pc + 2
                    /\ chip8'.v[OpX(Fetched)] = keydown[1] ]_vars

(***************************************************************************)
(* C4.  Original statement: memory[0x050..0x09F] equals the font table in  *)
(* every reachable state.                                                  *)
(***************************************************************************)
C4FontNeverChanges == FontIntact

\* The addresses an FX33 or FX55 fetched now stores to.
StoreRange(op) ==
    IF LowByte(op) = \h33 THEN chip8.index .. chip8.index + 2
    ELSE chip8.index .. chip8.index + OpX(op)

StoresIntoFont ==
    /\ CycleStep
    /\ Fetchable
    /\ Family(Fetched) = 15
    /\ LowByte(Fetched) \in { \h33, \h55 }
    /\ StoreRange(Fetched) \cap (FontBase .. FontBase + Len(CHIP8_FONTSET) - 1) # {}

(***************************************************************************)
(* C4, amended.  A byte of the font region changes only in a cycle that    *)
(* executes FX33 or FX55 with a store address inside 0x050..0x09F: no ROM  *)
(* load and no other opcode changes it.                                    *)
(***************************************************************************)
C4FontChangesOnlyByStore ==
    [][ FontRegion(chip8') # FontRegion(chip8) => StoresIntoFont ]_vars

\* A ROM was loaded and FX33 and FX55 have stored outside the font region:
\* the font is still the table.
C4Witness ==
    /\ file = RomFontStore
    /\ mainpc = "render"
    /\ chip8.opcode = \hF155
    /\ Get(chip8.memory, \h310) = \hFF
    /\ Get(chip8.memory, \h302) = 5
    /\ FontIntact

(***************************************************************************)
(* C5.  While the machine runs (no cycle has panicked), stack_pointer is   *)
(* between 0 and 16 inclusive, whatever calls and returns were executed.   *)
(***************************************************************************)
C5StackPointerInRange ==
    chip8.panic = "none" => chip8.sp \in 0 .. StackSize

\* Sixteen nested calls were executed and the machine still runs.
C5Witness ==
    /\ chip8.sp = StackSize
    /\ chip8.panic = "none"
    /\ Family(chip8.opcode) = 2
    /\ mainpc = "render"

(***************************************************************************)
(* C6.  A call with 16 return addresses pushed, and a return with none     *)
(* pushed, end the cycle in a panic: the driver executes nothing more, pc  *)
(* does not move to a wrapped or garbage address, and registers, index,    *)
(* memory, display, timers and the stack entries are unchanged.            *)
(***************************************************************************)
C6StackFaultIsObservable ==
    [][ ( /\ CycleStep
          /\ Fetchable
          /\ \/ Family(Fetched) = 2 /\ chip8.sp = StackSize
             \/ Fetched = \h00EE /\ chip8.sp = 0 )
            => /\ chip8'.panic # "none"
               /\ mainpc' = "panic"
               /\ chip8'.pc = chip8.pc
               /\ chip8'.v = chip8.v
               /\ chip8'.index = chip8.index
               /\ chip8'.memory = chip8.memory
               /\ chip8'.display = chip8.display
               /\ chip8'.delay_timer = chip8.delay_timer
               /\ chip8'.sound_timer = chip8.sound_timer
               /\ chip8'.stack = chip8.stack ]_vars

\* The seventeenth nested call has panicked.
C6Witness ==
    /\ mainpc = "panic"
    /\ chip8.panic = "bounds"
    /\ Family(chip8.opcode) = 2
    /\ chip8.sp = StackSize
    /\ \A i \in 0 .. StackSize - 1 : chip8.stack[i] = PcStart

(***************************************************************************)
(* C7.  Call/return round trip: 2NNN at p pushes p and sets pc to NNN, and *)
(* 00EE pops the last pushed p, sets pc to p + 2 and gives stack_pointer   *)
(* the value it had before that call, for every call site p and nesting    *)
(* depth up to 16.  With overflow checks the code's 00EE panics on the     *)
(* subtraction stack[sp] - 2 when p < 2.                                   *)
(***************************************************************************)
C7CallReturnRoundTrip ==
    [][ /\ (CycleStep /\ Fetchable /\ Family(Fetched) = 2 /\ chip8.sp < StackSize)
            => /\ chip8'.stack[chip8.sp] = chip8.pc
               /\ chip8'.sp = chip8.sp + 1
               /\ chip8'.pc = OpNNN(Fetched)
        /\ (CycleStep /\ Fetchable /\ Fetched = \h00EE /\ chip8.sp \in 1 .. StackSize)
            => /\ chip8'.pc = chip8.stack[chip8.sp - 1] + 2
               /\ chip8'.sp = chip8.sp - 1 ]_vars

(***************************************************************************)
(* C8.  Loading a ROM image of length L copies byte i to memory[0x200 + i] *)
(* for every i < min(L, 3584), changes no other memory byte and no other   *)
(* machine state, and reports success, also when L > 3584.                 *)
(***************************************************************************)
C8LoadCopiesImage ==
    [][ (mainpc = "load" /\ mainpc' # "load" /\ file # Unreadable)
            => LET n == IF Len(file) < Capacity THEN Len(file) ELSE Capacity
               IN  /\ result' = "Ok"
                   /\ \A a \in 0 .. MemSize - 1 :
                         Get(chip8'.memory, a) =
                            IF a >= RomBase /\ a < RomBase + n
                            THEN file[a - RomBase + 1]
                            ELSE Get(chip8.memory, a)
                   /\ DOMAIN chip8'.memory \subseteq 0 .. MemSize - 1
                   /\ [chip8' EXCEPT !.memory = chip8.memory] = chip8 ]_vars

\* An image longer than 3584 bytes was loaded with success and memory is
\* filled to its last byte.
C8Witness ==
    /\ mainpc = "video"
    /\ file = RomOversize
    /\ Len(file) > Capacity
    /\ result = "Ok"
    /\ Get(chip8.memory, MemSize - 1) = file[Capacity]
    /\ FontIntact

(***************************************************************************)
(* C9.  A load that fails on the file reports a failure, leaves the        *)
(* machine unchanged, and no cycle is executed afterwards.  The code's     *)
(* main drops the result of load_rom and enters the driver loop.           *)
(***************************************************************************)
C9FailedLoadEndsRun ==
    [][ /\ (mainpc = "load" /\ mainpc' # "load" /\ file = Unreadable)
            => (result' = "Err" /\ chip8' = chip8)
        /\ result = "Err" => ~CycleStep ]_vars

(***************************************************************************)
(* C10.  Every cycle that completes runs the timer tick once after the     *)
(* execute step: each timer is 1 less than the instruction left it, or 0   *)
(* if it left 0; without a timer-setting opcode a timer therefore counts   *)
(* down to 0 and stays there, never below.                                 *)
(***************************************************************************)
Dec(t) == IF t = 0 THEN 0 ELSE t - 1

SetsTimer(op) == Family(op) = 15 /\ LowByte(op) \in { \h15, \h18 }

C10TimerTick ==
    [][ (CycleStep /\ mainpc' = "render")
            => /\ \E rnd \in RandBytes :
                    LET e == decode_execute([chip8 EXCEPT !.opcode = Fetched], Fetched, rnd)
                    IN  chip8' = [e EXCEPT !.delay_timer = Dec(e.delay_timer),
                                           !.sound_timer = Dec(e.sound_timer)]
               /\ ~SetsTimer(Fetched)
                    => /\ chip8'.delay_timer = Dec(chip8.delay_timer)
                       /\ chip8'.sound_timer = Dec(chip8.sound_timer)
               /\ chip8'.delay_timer \in 0 .. U8 - 1
               /\ chip8'.sound_timer \in 0 .. U8 - 1 ]_vars

\* The sound timer was set to 5 in the second cycle, has counted down to 0
\* by the sixth and still reads 0 after the eighth.
C10Witness ==
    /\ file = RomSound
    /\ mainpc = "render"
    /\ frames = 8
    /\ chip8.sound_timer = 0
    /\ chip8.delay_timer = 0

(***************************************************************************)
(* C11.  FX15 sets delay_timer to Vx before the cycle's timer tick (so the *)
(* cycle ends with delay_timer one less than Vx, or 0), leaves every       *)
(* register unchanged and advances pc by 2.  The code's sdelay assigns     *)
(* v[x] = sound_timer and never writes delay_timer.                        *)
(***************************************************************************)
C11SetDelayWritesTimer ==
    [][ (CycleStep /\ Fetchable /\ Family(Fetched) = 15 /\ LowByte(Fetched) = \h15)
            => /\ chip8'.delay_timer = Dec(chip8.v[OpX(Fetched)])
               /\ chip8'.v = chip8.v
               /\ chip8'.pc = chip8.pc + 2 ]_vars

(***************************************************************************)
(* C12.  00E0 sets every display pixel to 0 and advances pc by 2, whatever *)
(* the display held.  The code's cls only advances pc.                     *)
(***************************************************************************)
C12ClearZeroesDisplay ==
    [][ (CycleStep /\ Fetchable /\ Fetched = \h00E0)
            => /\ chip8'.display = Zeroed
               /\ chip8'.pc = chip8.pc + 2 ]_vars

(***************************************************************************)
(* C13.  BNNN sets pc to NNN + V0 with the full 12-bit NNN and an          *)
(* unreduced sum.  The code's jmi casts NNN to u8 and adds in u8.          *)
(***************************************************************************)
C13JumpIndexedUsesFullAddress ==
    [][ (CycleStep /\ Fetchable /\ Family(Fetched) = 11)
            => chip8'.pc = OpNNN(Fetched) + chip8.v[0] ]_vars

\* The cycle executes 8XYk.
IsArith(k) == CycleStep /\ Fetchable /\ Family(Fetched) = 8 /\ LowNibble(Fetched) = k

(***************************************************************************)
(* C14.  For all registers X, Y, X = 0xF and Y = 0xF included, and all     *)
(* bytes a, b: after 8XY4 with Vx = a and Vy = b, Vx is (a+b) mod 256 and  *)
(* VF is 1 if a+b > 255 and 0 otherwise.  As stated this fails for X = 0xF,*)
(* where Vx and VF are one register.                                       *)
(***************************************************************************)
C14AddSumAndCarry ==
    [][ IsArith(4)
            => LET a == chip8.v[OpX(Fetched)]
                   b == chip8.v[OpY(Fetched)]
               IN  /\ chip8'.v[OpX(Fetched)] = (a + b) % U8
                   /\ chip8'.v[15] = IF a + b > 255 THEN 1 ELSE 0 ]_vars

(***************************************************************************)
(* C14, amended.  After 8XY4 with Vx = a and Vy = b, VF is 1 if a+b > 255  *)
(* and 0 otherwise, for all X and Y; and Vx is (a+b) mod 256 when X is not *)
(* 0xF.  With X = 0xF the carry is the value the register keeps.           *)
(***************************************************************************)
C14AddCarryWinsFlagRegister ==
    [][ IsArith(4)
            => LET a == chip8.v[OpX(Fetched)]
                   b == chip8.v[OpY(Fetched)]
               IN  /\ chip8'.v[15] = IF a + b > 255 THEN 1 ELSE 0
                   /\ OpX(Fetched) # 15 => chip8'.v[OpX(Fetched)] = (a + b) % U8 ]_vars

\* 8F14 has run with VF = 0x64 and V1 = 0xC8: the sum is 0x12C, VF holds the carry.
C14Witness ==
    /\ mainpc # "cycle"
    /\ chip8.panic = "none"
    /\ chip8.opcode = \h8F14
    /\ chip8.v[1] = \hC8
    /\ chip8.v[15] = 1

SkipTaken(op) ==
    LET vx == chip8.v[OpX(op)]
        vy == chip8.v[OpY(op)]
    IN  CASE Family(op) = 3 -> vx = OpNN(op)
          [] Family(op) = 4 -> vx # OpNN(op)
          [] Family(op) = 5 -> vx = vy
          [] Family(op) = 9 -> vx # vy
          [] Family(op) = 14 /\ LowByte(op) = \h9E -> vx < NumKeys /\ chip8.key[vx] # 0
          [] Family(op) = 14 /\ LowByte(op) = \hA1 -> vx < NumKeys /\ chip8.key[vx] = 0

IsSkip(op) ==
    \/ Family(op) \in { 3, 4, 9 }
    \/ Family(op) = 5 /\ LowNibble(op) = 0
    \/ Family(op) = 14 /\ LowByte(op) \in { \h9E, \hA1 }

\* The key code of a key skip names none of the 16 keys.
NoSuchKey(op) == Family(op) = 14 /\ chip8.v[OpX(op)] >= NumKeys

(***************************************************************************)
(* C16.  Each of 3XNN, 4XNN, 5XY0, 9XY0, EX9E, EXA1 advances pc by exactly *)
(* 4 when its condition holds and by exactly 2 when it does not, and       *)
(* changes no register, memory, stack or display state.  (Where Vx names   *)
(* no key, either advance is accepted here.)  The code's skpr and skup     *)
(* index key[v[x]] unchecked and abort when Vx >= 16.                      *)
(***************************************************************************)
C16SkipAdvancesTwoOrFour ==
    [][ (CycleStep /\ Fetchable /\ IsSkip(Fetched))
            => /\ IF NoSuchKey(Fetched)
                  THEN chip8'.pc \in { chip8.pc + 2, chip8.pc + 4 }
                  ELSE chip8'.pc = chip8.pc + (IF SkipTaken(Fetched) THEN 4 ELSE 2)
               /\ chip8'.v = chip8.v
               /\ chip8'.index = chip8.index
               /\ chip8'.memory = chip8.memory
               /\ chip8'.stack = chip8.stack
               /\ chip8'.sp = chip8.sp
               /\ chip8'.display = chip8.display ]_vars

(***************************************************************************)
(* Vocabulary of the sprite claims, read in the state before the cycle.    *)
(***************************************************************************)
IsDraw == CycleStep /\ Fetchable /\ Family(Fetched) = 13

\* The origin registers' values.
OriginX == chip8.v[OpX(Fetched)]
OriginY == chip8.v[OpY(Fetched)]

\* <<r, c>>: bit c, most significant first, of sprite row r is set.  A row
\* past the end of memory is never read.
SetBits ==
    { rc \in (0 .. OpN(Fetched) - 1) \X (0 .. 7) :
        /\ chip8.index + rc[1] < MemSize
        /\ BitAnd(Get(chip8.memory, chip8.index + rc[1]), Shr(128, rc[2])) # 0 }

\* The display cell of sprite bit <<r, c>>.
Cell(rc) == ((OriginX + rc[2]) % WIDTH) + (((OriginY + rc[1]) % HEIGHT) * WIDTH)

\* The draw completes and leaves its origin registers as they were, so the
\* same opcode executed next is the same sprite at the same origin.
Redrawable ==
    /\ chip8'.panic = "none"
    /\ chip8'.v[OpX(Fetched)] = OriginX
    /\ chip8'.v[OpY(Fetched)] = OriginY

(***************************************************************************)
(* C17.  Drawing the same sprite twice in a row at the same origin         *)
(* restores every display pixel to its value before the first draw, for    *)
(* every display content: after any draw, the same draw executed again     *)
(* yields the display the first one started from.                          *)
(***************************************************************************)
C17DoubleDrawRestoresDisplay ==
    [][ (IsDraw /\ Redrawable)
            => LET second == sprite(chip8', Fetched)
               IN  /\ second.panic = "none"
                   /\ second.display = chip8.display ]_vars

\* RomDraw after its fifth draw: glyph 1 has been drawn twice over glyph 0,
\* and the display is glyph 0 again (rows F0 90 90 90 F0 at the origin).
C17Witness ==
    /\ mainpc # "cycle"
    /\ chip8.opcode = \hD015
    /\ chip8.index = \h55
    /\ chip8.pc = \h20E
    /\ DOMAIN chip8.display =
          { 0, 1, 2, 3, 64, 67, 128, 131, 192, 195, 256, 257, 258, 259 }

\* Every pixel the sprite covers is 0 before the draw.
CoversBlank == \A rc \in SetBits : Get(chip8.display, Cell(rc)) = 0

(***************************************************************************)
(* C18.  When the same sprite is drawn twice at the same origin and the    *)
(* pixels it covers were all 0 before the first draw, VF is 0 after the    *)
(* second draw.  The second draw finds the pixels the first one lit, so    *)
(* this fails for every sprite with a set bit.                             *)
(***************************************************************************)
C18SecondDrawLeavesFlagClear ==
    [][ (IsDraw /\ Redrawable /\ CoversBlank)
            => sprite(chip8', Fetched).v[15] = 0 ]_vars

(***************************************************************************)
(* C18, amended.  When the same sprite is drawn twice at the same origin   *)
(* and the pixels it covers were all 0 before the first draw, VF after the *)
(* second draw is 1 if the sprite has at least one set bit (the second     *)
(* draw collides with the pixels the first one lit) and 0 if it has none.  *)
(***************************************************************************)
C18SecondDrawCollidesWithFirst ==
    [][ (IsDraw /\ Redrawable /\ CoversBlank)
            => sprite(chip8', Fetched).v[15] = (IF SetBits # {} THEN 1 ELSE 0) ]_vars

\* RomDraw after its second draw: glyph 0 drawn twice on the blank display;
\* the display is blank again and VF is 1.
C18Witness ==
    /\ mainpc # "cycle"
    /\ chip8.opcode = \hD015
    /\ chip8.index = \h50
    /\ chip8.pc = \h206
    /\ chip8.display = Zeroed
    /\ chip8.v[15] = 1

\* The display cells of the set sprite bits.
ToggledCells == { Cell(rc) : rc \in SetBits }

(***************************************************************************)
(* C19.  Sprite wrapping is per pixel: set bit c (most significant first)  *)
(* of memory[index + r] toggles exactly the display cell                   *)
(* ((Vx + c) mod 64) + ((Vy + r) mod 32) * 64, no other display cell       *)
(* changes, and the display index never leaves 0..2047.                    *)
(***************************************************************************)
C19SpriteWrapsPerPixel ==
    [][ IsDraw
            => /\ DOMAIN chip8'.display \subseteq 0 .. (WIDTH * HEIGHT - 1)
               /\ \A idx \in 0 .. (WIDTH * HEIGHT - 1) :
                     Get(chip8'.display, idx) =
                        IF idx \in ToggledCells THEN 1 - Get(chip8.display, idx)
                        ELSE Get(chip8.display, idx) ]_vars

\* RomWrap after its first draw, rows FF 81 at (60, 31): the first row lights
\* columns 60..63 and 0..3 of line 31, the second row columns 60 and 3 of
\* line 0.
C19Witness ==
    /\ mainpc # "cycle"
    /\ chip8.opcode = \hD012
    /\ chip8.v[0] = 60
    /\ chip8.v[1] = 31
    /\ DOMAIN chip8.display =
          { 31 * WIDTH + x : x \in { 60, 61, 62, 63, 0, 1, 2, 3 } } \cup { 60, 3 }

(***************************************************************************)
(* C20.  After DXYN, VF is 1 if and only if at least one set sprite bit    *)
(* was plotted onto a pixel that was already 1, whatever VF held before    *)
(* the draw and wherever in the sprite the collision occurred; VF is 0     *)
(* otherwise.                                                              *)
(***************************************************************************)
C20CollisionFlag ==
    [][ IsDraw
            => chip8'.v[15] =
                  IF \E rc \in SetBits : Get(chip8.display, Cell(rc)) = 1
                  THEN 1 ELSE 0 ]_vars

\* RomWrap after its second draw, rows FF 81 at (250, 255): the first row
\* collides on line 31, the second row, plotted last, lights columns 58 and
\* 1 of line 0 without a collision, and VF is 1.
C20Witness ==
    /\ mainpc # "cycle"
    /\ chip8.opcode = \hD012
    /\ chip8.v[0] = 250
    /\ chip8.v[1] = 255
    /\ chip8.index = \h218
    /\ Get(chip8.display, 58) = 1
    /\ Get(chip8.display, 1) = 1
    /\ chip8.v[15] = 1

(***************************************************************************)
(* C21.  FX1E sets index to (index + Vx) mod 65536 for every index and     *)
(* every Vx, the case index + Vx > 0xFFFF included (the sum wraps, it does *)
(* not fault), and advances pc by 2.  The code's adi adds with +=, which   *)
(* panics on overflow in a build with overflow checks.                     *)
(***************************************************************************)
C21AddIndexWraps ==
    [][ (CycleStep /\ Fetchable /\ Family(Fetched) = 15 /\ LowByte(Fetched) = \h1E)
            => /\ chip8'.index = (chip8.index + chip8.v[OpX(Fetched)]) % U16
               /\ chip8'.pc = chip8.pc + 2
               /\ chip8'.panic = "none" ]_vars

(***************************************************************************)
(* C22.  The draw_flag handshake of the driver loop: draw_flag becomes     *)
(* true only in a cycle that executes DXYN; after every such cycle the     *)
(* renderer reads the display and clears draw_flag before the next cycle   *)
(* starts, so draw_flag is false at the start of every cycle, and every    *)
(* sprite draw is followed by exactly one render of the display as it      *)
(* stands after that cycle.                                                *)
(***************************************************************************)
C22DrawFlagHandshake ==
    \* false at the start of every cycle (and whenever the loop is at its head)
    /\ [](mainpc \in { "load", "video", "poll", "cycle" } => ~chip8.draw_flag)
    \* raised only by a cycle that executes DXYN
    /\ [][ (~chip8.draw_flag /\ chip8'.draw_flag) => IsDraw ]_vars
    \* every cycle that executes DXYN and returns raises it and hands over
    \* to the renderer
    /\ [][ (IsDraw /\ chip8'.panic = "none")
              => chip8'.draw_flag /\ mainpc' = "render" ]_vars
    \* the renderer paints the display as the cycle left it and clears the flag
    /\ [][ (mainpc = "render" /\ chip8.draw_flag)
              => /\ screen' = chip8.display
                 /\ chip8' = [chip8 EXCEPT !.draw_flag = FALSE]
                 /\ mainpc' = "poll" ]_vars
    \* nothing is painted without a draw
    /\ [][ (mainpc # "render" \/ ~chip8.draw_flag) => screen' = screen ]_vars
    \* the render does happen
    /\ (mainpc = "render" /\ chip8.draw_flag)
          ~> (mainpc = "poll" /\ ~chip8.draw_flag /\ screen = chip8.display)

\* RomWrap after the render of its first draw: the screen shows the
\* wrapped sprite and the flag is down.
C22Witness ==
    /\ mainpc = "poll"
    /\ chip8.opcode = \hD012
    /\ chip8.v[0] = 60
    /\ ~chip8.draw_flag
    /\ screen = chip8.display
    /\ screen # Zeroed

(***************************************************************************)
(* C23.  In every state reachable from new() through load_rom and the      *)
(* cycles of the main loop, all 16 key states are released: nothing ever   *)
(* writes the key array, whatever keys go down on the host.  Hence, for Vx *)
(* in 0..15, EX9E never skips (pc + 2) and EXA1 always skips (pc + 4).     *)
(***************************************************************************)
C23KeysAlwaysReleased ==
    /\ [](\A k \in 0 .. NumKeys - 1 : chip8.key[k] = 0)
    /\ [][ (CycleStep /\ Fetchable /\ Family(Fetched) = 14
               /\ chip8.v[OpX(Fetched)] < NumKeys)
              => /\ LowByte(Fetched) = \h9E => chip8'.pc = chip8.pc + 2
                 /\ LowByte(Fetched) = \hA1 => chip8'.pc = chip8.pc + 4 ]_vars

\* RomKeySkips after its EX9E, executed while key 1 is down on the host:
\* V0 = 1 and the instruction has not skipped.
C23Witness ==
    /\ mainpc = "render"
    /\ keydown = << 1 >>
    /\ chip8.opcode = \hE09E
    /\ chip8.v[0] = 1
    /\ chip8.pc = \h204

=============================================================================
